---- MODULE Spec2Model ----
(***************************************************************************)
(* The Philmont trek selection application (src/app.py): the itinerary     *)
(* scoring engine (PhilmontScorer) and the request handlers that write the *)
(* data it reads.  The SQLite tables are the state; every handler is one   *)
(* action; the scorer's methods are operators evaluated on the tables.     *)
(*                                                                         *)
(* Values.  A nullable column or an optional Python value is <<>> for      *)
(* NULL / None and <<v>> for the value v.  SQLite keeps booleans as 0 / 1. *)
(* Python numbers (int and float) are exact rationals [n, d] with d > 0 in *)
(* lowest terms: Total, Median and Mode and everything derived from them   *)
(* are exact in double precision; Average is modelled as the exact         *)
(* quotient.  itinerary_code is an integer ordered as the text collates.   *)
(***************************************************************************)
EXTENDS Integers, Sequences, FiniteSets, Bags, TLC

VARIABLES
    crew_members,         \* table crew_members: a set of rows (id is the key)
    program_scores,       \* table program_scores: a bag of rows
    crew_preferences,     \* table crew_preferences: a sequence of rows (rowid order)
    programs,             \* table programs: the set of program ids
    itineraries,          \* table itineraries: a set of rows (id is the key)
    itinerary_programs,   \* table itinerary_programs: a set of rows
    request,              \* the request being answered (handler and inputs)
    response              \* what the handler returned

vars == <<crew_members, program_scores, crew_preferences, programs, itineraries,
          itinerary_programs, request, response>>

catalog == <<programs, itineraries, itinerary_programs>>

-----------------------------------------------------------------------------
(* Optional values and Python truthiness *)

None == <<>>

Some(v) == <<v>>

Truthy(x) == x # None /\ x[1] # 0

Or(x, default) == IF Truthy(x) THEN x[1] ELSE default

-----------------------------------------------------------------------------
(* Numbers *)

RECURSIVE Gcd(_, _)
Gcd(a, b) == IF b = 0 THEN a ELSE Gcd(b, a % b)

Abs(x) == IF x < 0 THEN -x ELSE x

Rat(n, d) == LET g == Gcd(Abs(n), d) IN [n |-> n \div g, d |-> d \div g]

Int2Num(i) == [n |-> i, d |-> 1]

Zero == Int2Num(0)

NumAdd(a, b) == Rat(a.n * b.d + b.n * a.d, a.d * b.d)

NumMul(a, b) == Rat(a.n * b.n, a.d * b.d)

NumLess(a, b) == a.n * b.d < b.n * a.d

NumLeq(a, b) == a.n * b.d <= b.n * a.d

RECURSIVE sum(_)
sum(s) == IF s = <<>> THEN 0 ELSE Head(s) + sum(Tail(s))

RECURSIVE NumSum(_)
NumSum(s) == IF s = <<>> THEN Zero ELSE NumAdd(Head(s), NumSum(Tail(s)))

\* sorted(scores): ascending and stable
RECURSIVE InsertAsc(_, _)
InsertAsc(s, x) ==
    IF s = <<>> THEN <<x>>
    ELSE IF x < Head(s) THEN <<x>> \o s
    ELSE <<Head(s)>> \o InsertAsc(Tail(s), x)

RECURSIVE sorted(_)
sorted(s) == IF s = <<>> THEN <<>> ELSE InsertAsc(sorted(SubSeq(s, 1, Len(s) - 1)), s[Len(s)])

-----------------------------------------------------------------------------
(* Score Aggregator: PhilmontScorer._calculate_aggregate *)

\* Counter(scores): the distinct values in order of first occurrence, each
\* with its number of occurrences.
RECURSIVE Counter(_)
Counter(scores) ==
    IF scores = <<>> THEN <<>>
    ELSE LET init == Counter(SubSeq(scores, 1, Len(scores) - 1))
             v == scores[Len(scores)]
         IN  IF \E i \in DOMAIN init : init[i][1] = v
             THEN [i \in DOMAIN init |->
                      IF init[i][1] = v THEN <<v, init[i][2] + 1>> ELSE init[i]]
             ELSE Append(init, <<v, 1>>)

\* most_common(1)[0][0]: max() over the items by count keeps the first of the
\* maximal items.
RECURSIVE MaxByCount(_, _)
MaxByCount(items, best) ==
    IF items = <<>> THEN best
    ELSE MaxByCount(Tail(items), IF Head(items)[2] > best[2] THEN Head(items) ELSE best)

most_common(scores) ==
    LET items == Counter(scores) IN MaxByCount(Tail(items), Head(items))[1]

\* The smallest of the most frequent values instead of the first.
ModeSmallest(scores) ==
    LET items == Counter(scores)
        top == {i \in DOMAIN items : \A j \in DOMAIN items : items[j][2] <= items[i][2]}
    IN  Int2Num(CHOOSE v \in {items[i][1] : i \in top} :
                    \A i \in top : v <= items[i][1])

ModeFirst(scores) == Int2Num(most_common(scores))

\* The upper central value for an even count instead of the mean of the two.
MedianUpper(scores) ==
    LET sorted_scores == sorted(scores)
        n == Len(sorted_scores)
    IN  Int2Num(sorted_scores[n \div 2 + 1])


MedianOf(scores) ==
    LET sorted_scores == sorted(scores)
        n == Len(sorted_scores)
    IN  IF n % 2 = 0
        THEN Rat(sorted_scores[n \div 2] + sorted_scores[n \div 2 + 1], 2)
        ELSE Int2Num(sorted_scores[n \div 2 + 1])

\* An unknown method averages instead of totalling.
calculate_aggregate_average(scores, method) ==
    IF method = "Total" THEN Int2Num(sum(scores))
    ELSE IF method = "Median" THEN MedianOf(scores)
    ELSE IF method = "Mode" THEN ModeFirst(scores)
    ELSE Rat(sum(scores), Len(scores))

calculate_aggregate(scores, method) ==
    IF method = "Total" THEN Int2Num(sum(scores))
    ELSE IF method = "Average" THEN Rat(sum(scores), Len(scores))
    ELSE IF method = "Median" THEN MedianOf(scores)
    ELSE IF method = "Mode" THEN ModeFirst(scores)
    ELSE Int2Num(sum(scores))

-----------------------------------------------------------------------------
(* Program Score Table Builder: PhilmontScorer.get_program_scores *)

\* The rows of a table kept as a bag, one per copy.
BagRows(B) == UNION {{<<r, k>> : k \in 1..CopiesIn(r, B)} : r \in BagToSet(B)}

\* An outer join: score rows of programs missing from the catalog are kept.
UnjoinedScores(crew_id) ==
    {c \in BagRows(program_scores) : c[1].crew_id = crew_id}

\* FROM programs p JOIN program_scores ps ON p.id = ps.program_id
\* WHERE ps.crew_id = ?
JoinedScores(crew_id) ==
    {c \in BagRows(program_scores) :
        c[1].crew_id = crew_id /\ c[1].program_id \in programs}

\* ORDER BY p.id, ps.crew_member_id: every order of the joined rows that is
\* ascending in (program id, member id).  Rows equal in both may come in any
\* order.
ScoreKeyLeq(a, b) ==
    \/ a[1].program_id < b[1].program_id
    \/ a[1].program_id = b[1].program_id /\ a[1].crew_member_id <= b[1].crew_member_id

RECURSIVE OrderedScores(_)
OrderedScores(rows) ==
    IF rows = {} THEN {<<>>}
    ELSE UNION {{<<[id |-> c[1].program_id, score |-> c[1].score]>> \o rest :
                    rest \in OrderedScores(rows \ {c})} :
                c \in {a \in rows : \A b \in rows : ScoreKeyLeq(a, b)}}

ScoreQuery(crew_id) == OrderedScores(JoinedScores(crew_id))

MapPut(map, key, value) ==
    [k \in DOMAIN map \cup {key} |-> IF k = key THEN value ELSE map[k]]

\* The grouping loop over the fetched rows (lines 83-101).
RECURSIVE GroupScores(_, _, _, _, _)
GroupScores(scores, current_program, current_scores, acc, method) ==
    IF scores = <<>>
    THEN IF current_program # None /\ current_scores # <<>>
         THEN MapPut(acc, current_program[1], calculate_aggregate(current_scores, method))
         ELSE acc
    ELSE LET score == Head(scores) IN
         IF current_program # Some(score.id)
         THEN GroupScores(Tail(scores), Some(score.id), <<score.score>>,
                          IF current_program # None /\ current_scores # <<>>
                          THEN MapPut(acc, current_program[1],
                                      calculate_aggregate(current_scores, method))
                          ELSE acc,
                          method)
         ELSE GroupScores(Tail(scores), current_program,
                          Append(current_scores, score.score), acc, method)

get_program_scores(scores, method) == GroupScores(scores, None, <<>>, <<>>, method)

-----------------------------------------------------------------------------
(* Itinerary Component Scorer *)

\* The first preferences row of any crew.
AnyCrewPreferences(crew_id) ==
    IF crew_preferences = <<>> THEN None ELSE Some(Head(crew_preferences))

\* _get_crew_preferences: dict(prefs) if prefs else {}.  fetchone() takes the
\* first matching row; the result is <<row>>, or <<>> for the empty dict.
get_crew_preferences(crew_id) ==
    LET found == SelectSeq(crew_preferences, LAMBDA r : r.crew_id = crew_id)
    IN  IF found = <<>> THEN None ELSE Some(Head(found))

\* crew_prefs.get(key, default): the default only when the dict is empty,
\* since a fetched row carries every column.
PrefGet(crew_prefs, key, default) ==
    IF crew_prefs = None THEN default ELSE crew_prefs[1][key]

RECURSIVE SetNumSum(_, _)
SetNumSum(S, f) ==
    IF S = {} THEN Zero
    ELSE LET x == CHOOSE y \in S : TRUE IN NumAdd(f[x], SetNumSum(S \ {x}, f))

\* Every listed program, whatever is_available says.
ListedPrograms(itinerary_id) ==
    {ip \in itinerary_programs : ip.itinerary_id = itinerary_id}

AvailablePrograms(itinerary_id) ==
    {ip \in itinerary_programs :
        ip.itinerary_id = itinerary_id /\ ip.is_available = Some(1)}

program_factor == Rat(3, 2)

calculate_program_score(itinerary_id, program_score_map) ==
    LET available_programs == AvailablePrograms(itinerary_id)
        counted == {ip \in available_programs : ip.program_id \in DOMAIN program_score_map}
        total_score == SetNumSum(counted, [ip \in counted |-> program_score_map[ip.program_id]])
    IN  NumMul(total_score, program_factor)

\* Accepts every itinerary whose tier the crew has not refused.
difficulty_accepted_unless_refused(difficulty, crew_prefs) ==
    ~ \/ difficulty = Some("C")
           /\ ~Truthy(PrefGet(crew_prefs, "difficulty_challenging", Some(1)))
      \/ difficulty = Some("R") /\ ~Truthy(PrefGet(crew_prefs, "difficulty_rugged", Some(1)))
      \/ difficulty = Some("S") /\ ~Truthy(PrefGet(crew_prefs, "difficulty_strenuous", Some(1)))
      \/ difficulty = Some("SS")
           /\ ~Truthy(PrefGet(crew_prefs, "difficulty_super_strenuous", Some(1)))

difficulty_accepted(difficulty, crew_prefs) ==
    IF difficulty = Some("C") /\ Truthy(PrefGet(crew_prefs, "difficulty_challenging", Some(1)))
    THEN TRUE
    ELSE IF difficulty = Some("R") /\ Truthy(PrefGet(crew_prefs, "difficulty_rugged", Some(1)))
    THEN TRUE
    ELSE IF difficulty = Some("S") /\ Truthy(PrefGet(crew_prefs, "difficulty_strenuous", Some(1)))
    THEN TRUE
    ELSE IF difficulty = Some("SS")
            /\ Truthy(PrefGet(crew_prefs, "difficulty_super_strenuous", Some(1)))
    THEN TRUE
    ELSE FALSE

calculate_difficulty_score(itinerary, crew_prefs) ==
    IF difficulty_accepted(itinerary.difficulty, crew_prefs) THEN Int2Num(100) ELSE Zero

AreaFields == <<"covers_south", "covers_central", "covers_north", "covers_valle_vidal">>

area_scores(crew_prefs) ==
    <<PrefGet(crew_prefs, "area_rank_south", Some(0)),
      PrefGet(crew_prefs, "area_rank_central", Some(0)),
      PrefGet(crew_prefs, "area_rank_north", Some(0)),
      PrefGet(crew_prefs, "area_rank_valle_vidal", Some(0))>>

\* Points for a ranked region whether or not the itinerary covers it.
AreaPointsAnywhere(itinerary, area_field, rank) ==
    IF Truthy(rank) THEN (5 - rank[1]) * 25 ELSE 0

AreaPoints(itinerary, area_field, rank) ==
    IF Truthy(itinerary[area_field]) /\ Truthy(rank) THEN (5 - rank[1]) * 25 ELSE 0

calculate_area_score(itinerary, crew_prefs) ==
    IF ~Truthy(PrefGet(crew_prefs, "area_important", Some(0)))
    THEN Zero
    ELSE LET ranks == area_scores(crew_prefs)
         IN  Int2Num(sum([i \in 1..4 |-> AreaPoints(itinerary, AreaFields[i], ranks[i])]))

\* max_altitude <= threshold with threshold None raises TypeError.
AltitudeTypeError(itinerary, crew_prefs) ==
    /\ Truthy(PrefGet(crew_prefs, "max_altitude_important", Some(0)))
    /\ PrefGet(crew_prefs, "max_altitude_threshold", Some(10000)) = None

\* The comparison with < in place of <=.
AltitudeBelowThreshold(itinerary, crew_prefs) ==
    LET max_altitude == Or(itinerary.max_altitude, 0) IN
    IF Truthy(PrefGet(crew_prefs, "max_altitude_important", Some(0)))
    THEN LET threshold == PrefGet(crew_prefs, "max_altitude_threshold", Some(10000))
         IN  IF max_altitude < threshold[1] THEN Int2Num(50) ELSE Zero
    ELSE Zero

calculate_altitude_score(itinerary, crew_prefs) ==
    LET max_altitude == Or(itinerary.max_altitude, 0) IN
    IF Truthy(PrefGet(crew_prefs, "max_altitude_important", Some(0)))
    THEN LET threshold == PrefGet(crew_prefs, "max_altitude_threshold", Some(10000))
         IN  IF max_altitude <= threshold[1] THEN Int2Num(50) ELSE Zero
    ELSE Zero

Max(a, b) == IF a > b THEN a ELSE b

calculate_distance_score(itinerary, crew_prefs) ==
    LET distance == Or(itinerary.distance, 50)
    IN  Int2Num(Max(0, 100 - Abs(distance - 50)))

-----------------------------------------------------------------------------
(* Itinerary Ranker: PhilmontScorer.calculate_itinerary_scores *)

\* SELECT * FROM itineraries ORDER BY itinerary_code: every order of the rows
\* that is ascending in itinerary_code.
RECURSIVE OrderedItineraries(_)
OrderedItineraries(rows) ==
    IF rows = {} THEN {<<>>}
    ELSE UNION {{<<r>> \o rest : rest \in OrderedItineraries(rows \ {r})} :
                r \in {a \in rows : \A b \in rows : a.itinerary_code <= b.itinerary_code}}

ItineraryQuery == OrderedItineraries(itineraries)

\* Components whose program part counts only for a crew that has marked
\* programs as important.
score_components_if_programs_important(itin, program_score_map, crew_prefs) ==
    [program_score    |-> IF Truthy(PrefGet(crew_prefs, "programs_important", Some(1)))
                          THEN calculate_program_score(itin.id, program_score_map)
                          ELSE Zero,
     difficulty_score |-> calculate_difficulty_score(itin, crew_prefs),
     area_score       |-> calculate_area_score(itin, crew_prefs),
     altitude_score   |-> calculate_altitude_score(itin, crew_prefs),
     distance_score   |-> calculate_distance_score(itin, crew_prefs)]

score_components(itin, program_score_map, crew_prefs) ==
    [program_score    |-> calculate_program_score(itin.id, program_score_map),
     difficulty_score |-> calculate_difficulty_score(itin, crew_prefs),
     area_score       |-> calculate_area_score(itin, crew_prefs),
     altitude_score   |-> calculate_altitude_score(itin, crew_prefs),
     distance_score   |-> calculate_distance_score(itin, crew_prefs)]

\* A total that leaves the distance component out.
TotalWithoutDistance(c) ==
    NumSum(<<c.program_score, c.difficulty_score, c.area_score, c.altitude_score>>)

ComponentTotal(c) ==
    NumSum(<<c.program_score, c.difficulty_score, c.area_score, c.altitude_score,
             c.distance_score>>)

ScoredEntry(itin, program_score_map, crew_prefs) ==
    LET components == score_components(itin, program_score_map, crew_prefs)
    IN  [itinerary |-> itin, total_score |-> ComponentTotal(components),
         components |-> components]

\* An unstable sort: an entry goes in front of the earlier entries it ties with.
RECURSIVE InsertDescBeforeTies(_, _)
InsertDescBeforeTies(s, x) ==
    IF s = <<>> THEN <<x>>
    ELSE IF NumLeq(Head(s).total_score, x.total_score) THEN <<x>> \o s
    ELSE <<Head(s)>> \o InsertDescBeforeTies(Tail(s), x)

\* results.sort(key=total_score, reverse=True): stable, so an entry goes behind
\* every earlier entry whose total is at least its own.
RECURSIVE InsertDesc(_, _)
InsertDesc(s, x) ==
    IF s = <<>> THEN <<x>>
    ELSE IF NumLess(Head(s).total_score, x.total_score) THEN <<x>> \o s
    ELSE <<Head(s)>> \o InsertDesc(Tail(s), x)

RECURSIVE SortResults(_)
SortResults(s) ==
    IF s = <<>> THEN <<>>
    ELSE InsertDesc(SortResults(SubSeq(s, 1, Len(s) - 1)), s[Len(s)])

AddRankings(results) ==
    [i \in DOMAIN results |->
        [itinerary |-> results[i].itinerary, total_score |-> results[i].total_score,
         components |-> results[i].components, ranking |-> i]]

\* scores: the rows get_program_scores fetched; itins: the rows the itinerary
\* query fetched.  The first itinerary scored raises when the altitude
\* comparison does.
calculate_itinerary_scores(crew_id, method, scores, itins) ==
    LET program_score_map == get_program_scores(scores, method)
        crew_prefs == get_crew_preferences(crew_id)
    IN  IF \E i \in DOMAIN itins : AltitudeTypeError(itins[i], crew_prefs)
        THEN [status |-> "TypeError", results |-> <<>>]
        ELSE [status |-> "ok",
              results |-> AddRankings(SortResults(
                  [i \in DOMAIN itins |-> ScoredEntry(itins[i], program_score_map, crew_prefs)]))]

-----------------------------------------------------------------------------
(* Rows *)

\* A crew_preferences row.  ranks and difficulty are 4-tuples in the order
\* south, central, north, valle vidal and C, R, S, SS.
PrefRow(crew_id, area_important, ranks, altitude_important, threshold, difficulty) ==
    [crew_id |-> crew_id,
     area_important |-> area_important,
     area_rank_south |-> ranks[1], area_rank_central |-> ranks[2],
     area_rank_north |-> ranks[3], area_rank_valle_vidal |-> ranks[4],
     max_altitude_important |-> altitude_important,
     max_altitude_threshold |-> threshold,
     difficulty_challenging |-> difficulty[1], difficulty_rugged |-> difficulty[2],
     difficulty_strenuous |-> difficulty[3], difficulty_super_strenuous |-> difficulty[4],
     climb_baldy |-> Some(0), climb_phillips |-> Some(0), climb_tooth |-> Some(0),
     climb_inspiration_point |-> Some(0), programs_important |-> Some(0)]

Itinerary(id, code, difficulty, distance, max_altitude, covers) ==
    [id |-> id, itinerary_code |-> code, difficulty |-> difficulty, distance |-> distance,
     max_altitude |-> max_altitude,
     covers_south |-> covers[1], covers_central |-> covers[2],
     covers_north |-> covers[3], covers_valle_vidal |-> covers[4]]

ScoreRow(crew_id, crew_member_id, program_id, score) ==
    [crew_id |-> crew_id, crew_member_id |-> crew_member_id, program_id |-> program_id,
     score |-> score]

Member(id, crew_id, member_number, name, email, age, skill_level) ==
    [id |-> id, crew_id |-> crew_id, member_number |-> member_number, name |-> name,
     email |-> email, age |-> age, skill_level |-> skill_level]

Availability(itinerary_id, program_id, is_available) ==
    [itinerary_id |-> itinerary_id, program_id |-> program_id, is_available |-> is_available]

-----------------------------------------------------------------------------
(* Bounds and input domains *)

NumPrograms == 2

MaxMembers == 4

NumItineraries == 3

\* Member rows get ids 1..MaxMemberId.
MaxMemberId == 2

ProgramIds == 1..NumPrograms

\* A program id that score and availability rows may carry without a programs row.
UnknownProgram == NumPrograms + 1

CrewIds == {1, 2}

Methods == {"Total", "Average", "Median", "Mode", "Bogus", "total"}

ScoreValues == {10, 20, 30, 40}

AllTrue == <<Some(1), Some(1), Some(1), Some(1)>>

NoRanks == <<None, None, None, None>>

NoCover == <<Some(0), Some(0), Some(0), Some(0)>>

\* The members a crew-1 score row can name: created with numbers 1, 2, ...
SampleMembers ==
    {Member(m, 1, m, "member", "", Some(16), Some(3)) : m \in 1..MaxMembers}

\* Two itineraries; the first offers every program, the second only program 1.
BaseItineraries ==
    {Itinerary(1, 1, Some("C"), Some(50), Some(9000), NoCover),
     Itinerary(2, 2, Some("S"), Some(80), Some(11000), NoCover)}

BaseAvailability ==
    {Availability(1, p, Some(1)) : p \in ProgramIds}
    \cup {Availability(2, 1, Some(1))}
    \cup {Availability(2, p, Some(0)) : p \in ProgramIds \ {1}}

-----------------------------------------------------------------------------
(* The scorer on given tables: the initial states draw the tables *)

NoRequest == [op |-> "none"]

NoResponse == [status |-> "none"]

\* Aggregation inputs: every member of crew 1 may have scored program 1; a few
\* further rows for another program, for a program missing from the catalog
\* and for another crew.
InitAggregate ==
    /\ programs = ProgramIds
    /\ itineraries = BaseItineraries
    /\ itinerary_programs = BaseAvailability
    /\ crew_members = SampleMembers
    /\ crew_preferences = <<>>
    /\ \E first \in [1..MaxMembers -> ScoreValues \cup {0}] :
       \E extra \in {{ScoreRow(1, 2, UnknownProgram, 30), ScoreRow(2, MaxMembers + 1, 1, 40)},
                     {ScoreRow(1, 1, NumPrograms, 20), ScoreRow(1, 2, UnknownProgram, 30),
                      ScoreRow(2, MaxMembers + 1, 1, 40)}} :
          program_scores =
              SetToBag({ScoreRow(1, m, 1, first[m]) : m \in {k \in 1..MaxMembers : first[k] # 0}}
                       \cup extra)
    /\ request = NoRequest
    /\ response = NoResponse

\* Ranking inputs: itineraries whose catalog order is not their id order, two
\* of which may share a code, with distances that make totals tie or differ,
\* under a few preference records.
RankPrefs ==
    {<<>>,
     <<PrefRow(1, Some(0), NoRanks, Some(1), Some(10000), AllTrue)>>,
     <<PrefRow(1, Some(0), NoRanks, Some(1), None, AllTrue)>>,
     <<PrefRow(1, Some(1), <<Some(1), None, Some(3), Some(0)>>, Some(0), None,
               <<Some(1), Some(0), Some(1), Some(1)>>)>>}

RankCodes == {[i \in 1..NumItineraries |-> NumItineraries + 1 - i],
              [i \in 1..NumItineraries |-> IF i = 1 THEN 2 ELSE i - 1]}

InitRank ==
    /\ programs = ProgramIds
    /\ \E code \in RankCodes :
       \E distance \in [1..NumItineraries -> {None, Some(50), Some(80)}] :
          itineraries =
              {Itinerary(i, code[i], IF i = 2 THEN Some("R") ELSE Some("C"), distance[i],
                         IF i = 1 THEN Some(11000) ELSE None,
                         IF i = 1 THEN <<Some(1), Some(0), Some(1), Some(0)>> ELSE NoCover) :
               i \in 1..NumItineraries}
    /\ itinerary_programs = BaseAvailability
    /\ crew_members = SampleMembers
    /\ crew_preferences \in RankPrefs
    /\ program_scores \in {EmptyBag, SetToBag({ScoreRow(1, 1, 1, 20), ScoreRow(1, 2, 1, 10)})}
    /\ request = NoRequest
    /\ response = NoResponse

\* Difficulty inputs: one itinerary per difficulty value, under every setting
\* of the four difficulty flags and under no record.
DifficultyValues == <<Some("C"), Some("R"), Some("S"), Some("SS"), None, Some("X")>>

InitDifficulty ==
    /\ programs = ProgramIds
    /\ itineraries = {Itinerary(i, i, DifficultyValues[i], Some(50), None, NoCover) :
                      i \in DOMAIN DifficultyValues}
    /\ itinerary_programs = {}
    /\ crew_members = SampleMembers
    /\ \/ crew_preferences = <<>>
       \/ \E flags \in [1..4 -> {None, Some(0), Some(1)}] :
             crew_preferences = <<PrefRow(1, Some(0), NoRanks, Some(0), None, flags)>>
    /\ program_scores = EmptyBag
    /\ request = NoRequest
    /\ response = NoResponse

\* Area inputs: itineraries that cover south and north, central and valle
\* vidal, everything and nothing, under every ranking over RankValues when
\* area is important, and under two rankings when it is not or is unset.
RankValues == {None, Some(0), Some(1), Some(3), Some(6)}

AreaCovers == <<<<Some(1), Some(0), Some(1), Some(0)>>, <<Some(0), Some(1), None, Some(1)>>,
                <<Some(1), Some(1), Some(1), Some(1)>>, NoCover>>

InitArea ==
    /\ programs = ProgramIds
    /\ itineraries = {Itinerary(i, i, Some("C"), Some(50), None, AreaCovers[i]) :
                      i \in DOMAIN AreaCovers}
    /\ itinerary_programs = {}
    /\ crew_members = SampleMembers
    /\ \/ crew_preferences = <<>>
       \/ \E ranks \in [1..4 -> RankValues] :
             crew_preferences = <<PrefRow(1, Some(1), ranks, Some(0), None, AllTrue)>>
       \/ \E important \in {None, Some(0)}, ranks \in {NoRanks, <<Some(1), Some(3), Some(1), Some(6)>>} :
             crew_preferences = <<PrefRow(1, important, ranks, Some(0), None, AllTrue)>>
    /\ program_scores = EmptyBag
    /\ request = NoRequest
    /\ response = NoResponse

\* Program inputs: one itinerary with every availability of the catalog
\* programs and of a program without a programs row, and a member's scores.
AvailableValues == <<Some(0), Some(1)>>

InitProgram ==
    /\ programs = ProgramIds
    /\ itineraries = {Itinerary(1, 1, Some("C"), Some(50), None, NoCover)}
    /\ \E avail \in [1..UnknownProgram -> 0..Len(AvailableValues)] :
          itinerary_programs =
              {Availability(1, p, AvailableValues[avail[p]]) :
               p \in {q \in 1..UnknownProgram : avail[q] # 0}}
    /\ crew_members = SampleMembers
    /\ crew_preferences = <<>>
    /\ \E given \in [ProgramIds -> {0, 40, 60}] :
       \E extra \in {{}, {ScoreRow(1, 2, 1, 60), ScoreRow(1, 1, UnknownProgram, 40)}} :
          program_scores =
              SetToBag({ScoreRow(1, 1, p, given[p]) : p \in {q \in ProgramIds : given[q] # 0}}
                       \cup extra)
    /\ request = NoRequest
    /\ response = NoResponse

\* Altitude inputs: itineraries with no maximum altitude, 0, and altitudes
\* around the thresholds, under every setting of the importance flag with a
\* threshold, under a cleared flag without threshold, and under no record.
AltitudeValues == <<None, Some(0), Some(10000), Some(10001), Some(9000), Some(12000)>>

ThresholdValues == {Some(0), Some(10000), Some(11000)}

InitAltitude ==
    /\ programs = ProgramIds
    /\ itineraries = {Itinerary(i, i, Some("C"), Some(50), AltitudeValues[i], NoCover) :
                      i \in DOMAIN AltitudeValues}
    /\ itinerary_programs = {}
    /\ crew_members = SampleMembers
    /\ \/ crew_preferences = <<>>
       \/ \E important \in {None, Some(0), Some(1)}, threshold \in ThresholdValues :
             crew_preferences = <<PrefRow(1, Some(0), NoRanks, important, threshold, AllTrue)>>
       \/ \E important \in {None, Some(0)} :
             crew_preferences = <<PrefRow(1, Some(0), NoRanks, important, None, AllTrue)>>
    /\ program_scores = EmptyBag
    /\ request = NoRequest
    /\ response = NoResponse

\* Distance inputs: itineraries with no distance, 0, and distances on both
\* sides of 50 up to beyond 150, with and without a preferences record.
DistanceValues == <<None, Some(0), Some(20), Some(50), Some(80), Some(150), Some(151)>>

InitDistance ==
    /\ programs = ProgramIds
    /\ itineraries = {Itinerary(i, i, Some("C"), DistanceValues[i], None, NoCover) :
                      i \in DOMAIN DistanceValues}
    /\ itinerary_programs = {}
    /\ crew_members = SampleMembers
    /\ crew_preferences \in {<<>>, <<PrefRow(1, Some(0), NoRanks, Some(0), None, AllTrue)>>}
    /\ program_scores = EmptyBag
    /\ request = NoRequest
    /\ response = NoResponse

InitScorer ==
    \/ InitAggregate \/ InitRank \/ InitDifficulty \/ InitArea \/ InitProgram
    \/ InitAltitude \/ InitDistance

\* PhilmontScorer(crew_id).get_program_scores(method), called once on the
\* drawn tables.
GetProgramScores(crew_id, method) ==
    /\ request = NoRequest
    /\ \E scores \in ScoreQuery(crew_id) :
          response' = [status |-> "ok", program_scores |-> get_program_scores(scores, method),
                       fetched |-> scores]
    /\ request' = [op |-> "get_program_scores", crew_id |-> crew_id, method |-> method]
    /\ UNCHANGED <<crew_members, program_scores, crew_preferences, catalog>>

\* GET /api/calculate?crew_id=&method=, called once on the drawn tables.
ApiCalculate(crew_id, method) ==
    /\ request = NoRequest
    /\ \E scores \in ScoreQuery(crew_id), itins \in ItineraryQuery :
          response' = [status |-> calculate_itinerary_scores(crew_id, method, scores, itins).status,
                       results |-> calculate_itinerary_scores(crew_id, method, scores, itins).results,
                       fetched |-> scores, catalog_order |-> itins]
    /\ request' = [op |-> "api_calculate", crew_id |-> crew_id, method |-> method]
    /\ UNCHANGED <<crew_members, program_scores, crew_preferences, catalog>>

NextScorer ==
    \/ \E crew_id \in CrewIds, method \in Methods : GetProgramScores(crew_id, method)
    \/ \E crew_id \in CrewIds, method \in Methods : ApiCalculate(crew_id, method)

SpecScorer == InitScorer /\ [][NextScorer]_vars

-----------------------------------------------------------------------------
(* The request handlers that write crew members and their score rows *)

\* A numeric form field: missing from the form, blank, or a string of digits.
Absent == [kind |-> "absent", int |-> 0]

Blank == [kind |-> "blank", int |-> 0]

Digits(n) == [kind |-> "digits", int |-> n]

\* What request.form.get hands back for a missing field: its default, which
\* is None or a Python int.
PyNone == [kind |-> "none", int |-> 0]

PyInt(n) == [kind |-> "int", int |-> n]

\* request.form.get(key, default)
FormGet(field, default) == IF field.kind = "absent" THEN default ELSE field

\* request.form.get(key, default, type=int): the default when the field is
\* missing or does not convert.  Here the default is already a value.
TypedGet(field, default) == IF field.kind = "digits" THEN Some(field.int) ELSE default

\* safe_int of submit_survey.  An int (a default passed through) is truthy
\* unless 0 and has no strip(): the call raises AttributeError.
safe_int(value) ==
    IF value.kind = "none" THEN [raised |-> FALSE, value |-> None]
    ELSE IF value.kind = "int"
         THEN [raised |-> value.int # 0, value |-> None]
    ELSE IF value.kind = "digits" THEN [raised |-> FALSE, value |-> Some(value.int)]
    ELSE [raised |-> FALSE, value |-> None]

\* COALESCE(?, column)
Coalesce(value, column) == IF value # None THEN value ELSE column

\* COALESCE(name or None, column) on a text column
CoalesceText(value, column) == IF value # "" THEN value ELSE column

SetMax(S) == CHOOSE x \in S : \A y \in S : y <= x

\* A member number one above the largest number of any crew.
next_member_number_of_all_crews(crew_id) ==
    LET numbers == {m.member_number : m \in crew_members}
    IN  IF numbers = {} THEN 1 ELSE SetMax(numbers) + 1

\* (SELECT MAX(member_number) ... WHERE crew_id = ?) or 0, plus 1
next_member_number(crew_id) ==
    LET numbers == {m.member_number : m \in {c \in crew_members : c.crew_id = crew_id}}
    IN  IF numbers = {} THEN 1 ELSE SetMax(numbers) + 1

\* cursor.lastrowid of an INSERT INTO crew_members: the next rowid.
lastrowid == IF crew_members = {} THEN 1 ELSE SetMax({m.id : m \in crew_members}) + 1

\* No DELETE: the rows of the member stay.
KeepScores(member_id) == program_scores

\* DELETE FROM program_scores WHERE crew_member_id = ?
DeleteScores(member_id) ==
    LET kept == {r \in BagToSet(program_scores) : r.crew_member_id # member_id}
    IN  [r \in kept |-> program_scores[r]]

\* The rows that DELETE removes.
DeletedScores(member_id) ==
    LET gone == {r \in BagToSet(program_scores) : r.crew_member_id = member_id}
    IN  [r \in gone |-> program_scores[r]]

\* The score the survey form gives for a catalog program (line 647).
survey_score(form, p) == safe_int(FormGet(form.programs[p], PyInt(10)))

\* The rows the survey's insert loop adds (lines 646-652).
SurveyRows(form, crew_id, member_id) ==
    {ScoreRow(crew_id, member_id, p, survey_score(form, p).value[1]) :
        p \in {q \in programs : survey_score(form, q).value # None}}

Flash(category, member_id, deleted) ==
    [status |-> "redirect", flash |-> category, member_id |-> member_id, deleted |-> deleted]

\* An exception no handler catches: Flask answers 500, nothing was written.
ServerError == [status |-> "500", flash |-> "none", member_id |-> None, deleted |-> EmptyBag]

\* Leaves the database as it was: an early return, a rollback, or a close
\* of the connection with uncommitted changes.
NoWrite(resp) ==
    /\ response' = resp
    /\ UNCHANGED <<crew_members, program_scores>>

\* A survey that commits the member rows and the DELETE before the insert
\* loop, so that a failing loop leaves them written.
SurveyCommitBeforeInsert(form, crew_id, member_id, members) ==
    IF \E p \in programs : survey_score(form, p).raised
    THEN /\ crew_members' = members
         /\ program_scores' = DeleteScores(member_id)
         /\ response' = Flash("error", None, EmptyBag)
    ELSE /\ crew_members' = members
         /\ program_scores' =
                DeleteScores(member_id) (+) SetToBag(SurveyRows(form, crew_id, member_id))
         /\ response' = Flash("success", Some(member_id), DeletedScores(member_id))

\* The score rows of the survey and the commit (lines 640-659), for the
\* member rows the statements before have produced.
SurveyCommit(form, crew_id, member_id, members) ==
    IF \E p \in programs : survey_score(form, p).raised
    THEN NoWrite(Flash("error", None, EmptyBag))
    ELSE /\ crew_members' = members
         /\ program_scores' =
                DeleteScores(member_id) (+) SetToBag(SurveyRows(form, crew_id, member_id))
         /\ response' = Flash("success", Some(member_id), DeletedScores(member_id))

\* A lookup that tries the name before the email.
existing_member_rows_name_first(crew_id, name, email) ==
    LET by_email == {m \in crew_members : m.crew_id = crew_id /\ m.email = email}
        by_name == {m \in crew_members : m.crew_id = crew_id /\ m.name = name}
    IN  IF name # "" /\ by_name # {} THEN by_name ELSE IF email # "" THEN by_email ELSE {}

\* The rows fetchone() may return as existing_member (lines 601-614): a
\* member of the crew with the email, else one with the name.
existing_member_rows(crew_id, name, email) ==
    LET by_email == IF email # ""
                    THEN {m \in crew_members : m.crew_id = crew_id /\ m.email = email}
                    ELSE {}
        by_name == {m \in crew_members : m.crew_id = crew_id /\ m.name = name}
    IN  IF by_email # {} THEN by_email ELSE IF name # "" THEN by_name ELSE {}

\* POST /survey
SubmitSurvey(form) ==
    LET existing_member_id == safe_int(FormGet(form.existing_member_id, PyNone)).value
        name == form.name
        email == form.email
        crew_id == safe_int(FormGet(form.crew_id, PyNone)).value
        age == safe_int(FormGet(form.age, PyNone)).value
        skill_level == safe_int(FormGet(form.skill_level, PyInt(3)))
        found == existing_member_rows(crew_id[1], name, email)
    IN
    /\ request' = [op |-> "submit_survey", form |-> form]
    /\ UNCHANGED <<crew_preferences, catalog>>
    /\ IF skill_level.raised THEN NoWrite(ServerError)
       ELSE IF ~Truthy(crew_id) THEN NoWrite(Flash("error", None, EmptyBag))
       ELSE IF form.member_type = "existing" /\ ~Truthy(existing_member_id)
            THEN NoWrite(Flash("error", None, EmptyBag))
       ELSE IF form.member_type # "existing" /\ (name = "" \/ email = "")
            THEN NoWrite(Flash("error", None, EmptyBag))
       ELSE IF form.member_type = "existing"
            THEN SurveyCommit(form, crew_id[1], existing_member_id[1],
                    IF name # "" \/ email # "" \/ Truthy(age) \/ Truthy(skill_level.value)
                    THEN {IF m.id = existing_member_id[1] /\ m.crew_id = crew_id[1]
                          THEN [m EXCEPT !.name = CoalesceText(name, m.name),
                                         !.email = CoalesceText(email, m.email),
                                         !.age = Coalesce(age, m.age),
                                         !.skill_level = Coalesce(skill_level.value,
                                                                  m.skill_level)]
                          ELSE m : m \in crew_members}
                    ELSE crew_members)
       ELSE IF found # {}
            THEN \E existing_member \in found :
                    SurveyCommit(form, crew_id[1], existing_member.id,
                        {IF m.id = existing_member.id
                         THEN [m EXCEPT !.name = name, !.email = email, !.age = age,
                                        !.skill_level = skill_level.value]
                         ELSE m : m \in crew_members})
       ELSE /\ lastrowid <= MaxMemberId
            /\ SurveyCommit(form, crew_id[1], lastrowid,
                    crew_members \cup
                    {Member(lastrowid, crew_id[1], next_member_number(crew_id[1]),
                            name, email, age, skill_level.value)})

\* POST /admin/add_member
AddMember(form) ==
    LET crew_id == TypedGet(form.crew_id, None)
        age == TypedGet(form.age, None)
        skill_level == TypedGet(form.skill_level, Some(3))
    IN
    /\ request' = [op |-> "add_member", form |-> form]
    /\ UNCHANGED <<crew_preferences, catalog>>
    /\ IF ~Truthy(crew_id) \/ form.name = "" THEN NoWrite(Flash("error", None, EmptyBag))
       ELSE /\ lastrowid <= MaxMemberId
            /\ crew_members' = crew_members \cup
                    {Member(lastrowid, crew_id[1], next_member_number(crew_id[1]),
                            form.name, form.email, age, skill_level)}
            /\ response' = Flash("success", Some(lastrowid), EmptyBag)
            /\ UNCHANGED program_scores

\* POST /admin/edit_member
EditMember(form) ==
    LET member_id == TypedGet(form.member_id, None)
        age == TypedGet(form.age, None)
        skill_level == TypedGet(form.skill_level, Some(3))
    IN
    /\ request' = [op |-> "edit_member", form |-> form]
    /\ UNCHANGED <<crew_preferences, catalog>>
    /\ IF ~Truthy(member_id) \/ form.name = "" THEN NoWrite(Flash("error", None, EmptyBag))
       ELSE /\ crew_members' =
                    {IF m.id = member_id[1]
                     THEN [m EXCEPT !.name = form.name, !.email = form.email, !.age = age,
                                    !.skill_level = skill_level]
                     ELSE m : m \in crew_members}
            /\ response' = Flash("success", member_id, EmptyBag)
            /\ UNCHANGED program_scores

\* A delete of the member row alone.
DeleteMemberOnly(form) ==
    LET member_id == TypedGet(form.member_id, None) IN
    /\ request' = [op |-> "delete_member", form |-> form]
    /\ UNCHANGED <<crew_preferences, catalog>>
    /\ IF ~Truthy(member_id) THEN NoWrite(Flash("error", None, EmptyBag))
       ELSE IF \E m \in crew_members : m.id = member_id[1]
            THEN /\ crew_members' = {m \in crew_members : m.id # member_id[1]}
                 /\ program_scores' = program_scores
                 /\ response' = Flash("success", member_id, DeletedScores(member_id[1]))
            ELSE NoWrite(Flash("error", member_id, EmptyBag))

\* A delete that commits the score DELETE whether or not a member row was
\* deleted.
DeleteMemberCommitsAlways(form) ==
    LET member_id == TypedGet(form.member_id, None) IN
    /\ request' = [op |-> "delete_member", form |-> form]
    /\ UNCHANGED <<crew_preferences, catalog>>
    /\ IF ~Truthy(member_id) THEN NoWrite(Flash("error", None, EmptyBag))
       ELSE IF \E m \in crew_members : m.id = member_id[1]
            THEN /\ crew_members' = {m \in crew_members : m.id # member_id[1]}
                 /\ program_scores' = DeleteScores(member_id[1])
                 /\ response' = Flash("success", member_id, DeletedScores(member_id[1]))
            ELSE /\ crew_members' = crew_members
                 /\ program_scores' = DeleteScores(member_id[1])
                 /\ response' = Flash("error", member_id, EmptyBag)

\* POST /admin/delete_member.  The commit happens only when a member row was
\* deleted; otherwise the connection is closed with the score DELETE
\* uncommitted, which rolls it back.
DeleteMember(form) ==
    LET member_id == TypedGet(form.member_id, None) IN
    /\ request' = [op |-> "delete_member", form |-> form]
    /\ UNCHANGED <<crew_preferences, catalog>>
    /\ IF ~Truthy(member_id) THEN NoWrite(Flash("error", None, EmptyBag))
       ELSE IF \E m \in crew_members : m.id = member_id[1]
            THEN /\ crew_members' = {m \in crew_members : m.id # member_id[1]}
                 /\ program_scores' = DeleteScores(member_id[1])
                 /\ response' = Flash("success", member_id, DeletedScores(member_id[1]))
            ELSE NoWrite(Flash("error", member_id, EmptyBag))

\* A form value that is neither blank nor an integer literal.
Text == [kind |-> "text", int |-> 0]

\* One entry of the POST /scores form.  The key is "score_m_p" when it reads
\* score_<member>_<program> with integer ids, "score_x_p" when a part is not
\* an integer, "score_m" when it has not three parts, and "other" when it
\* does not start with score_.
ScoreEntry(key, member, program, value) ==
    [key |-> key, member |-> member, program |-> program, value |-> value]

\* The entries the loop of save_scores inserts (lines 428-442): the key
\* starts with score_, the value is not blank, the key has three parts, and
\* the three int() calls succeed.
InsertedEntries(form) ==
    {entry \in form : /\ entry.key # "other"
                      /\ entry.value.kind # "blank"
                      /\ entry.key # "score_m"
                      /\ entry.key # "score_x_p"
                      /\ entry.value.kind = "digits"}

\* The rows of the other crews, which DELETE ... WHERE crew_id = ? keeps.
OtherCrewScores(crew_id) ==
    LET kept == {r \in BagToSet(program_scores) : r.crew_id # crew_id}
    IN  [r \in kept |-> program_scores[r]]

\* A save that replaces the rows of the members the form mentions and keeps
\* those of the crew's other members.
SaveScoresOfMentioned(form) ==
    LET crew_id == 1
        mentioned == {entry.member : entry \in InsertedEntries(form)}
        kept == {r \in BagToSet(program_scores) :
                    r.crew_id # crew_id \/ r.crew_member_id \notin mentioned}
    IN
    /\ request' = [op |-> "save_scores", form |-> form]
    /\ program_scores' =
          [r \in kept |-> program_scores[r]]
          (+) SetToBag({ScoreRow(crew_id, entry.member, entry.program, entry.value.int) :
                            entry \in InsertedEntries(form)})
    /\ response' = Flash("success", None, EmptyBag)
    /\ UNCHANGED <<crew_members, crew_preferences, catalog>>

\* POST /scores
SaveScores(form) ==
    LET crew_id == 1 IN
    /\ request' = [op |-> "save_scores", form |-> form]
    /\ program_scores' =
          OtherCrewScores(crew_id)
          (+) SetToBag({ScoreRow(crew_id, entry.member, entry.program, entry.value.int) :
                            entry \in InsertedEntries(form)})
    /\ response' = Flash("success", None, EmptyBag)
    /\ UNCHANGED <<crew_members, crew_preferences, catalog>>

\* The forms the requests are drawn from.
SurveyForm(member_type, existing_member_id, person, crew_id, age, skill_level, scores) ==
    [member_type |-> member_type, existing_member_id |-> existing_member_id,
     name |-> person[1], email |-> person[2], crew_id |-> crew_id, age |-> age,
     skill_level |-> skill_level, programs |-> scores]

\* A score for every catalog program: the first as given, 10 for the others.
FirstScore(v) == [p \in ProgramIds |-> IF p = 1 THEN v ELSE Digits(10)]

\* No field for the last catalog program.
MissingScore == [p \in ProgramIds |-> IF p = NumPrograms THEN Absent ELSE Digits(10)]

SurveyForms ==
    {SurveyForm("new", Absent, <<"ann", "a@x">>, Digits(1), Blank, Digits(3), FirstScore(v)) :
        v \in {Blank, Digits(10), Digits(20)}}
    \cup {SurveyForm("new", Absent, <<"bob", "b@x">>, Digits(c), Blank, Digits(3),
                     FirstScore(Digits(10))) : c \in CrewIds}
    \cup {SurveyForm("existing", Digits(id), <<"", "">>, Digits(1), Blank, Digits(3),
                     FirstScore(v)) :
            id \in 1..MaxMemberId, v \in {Digits(20)}}
    \cup {SurveyForm("new", Absent, <<"ann", "b@x">>, Digits(1), Blank, Digits(3),
                     FirstScore(Digits(20))),
          SurveyForm("existing", Digits(1), <<"", "">>, Digits(2), Blank, Digits(3),
                     FirstScore(Digits(20))),
          SurveyForm("existing", Digits(1), <<"bob", "b@x">>, Digits(1), Blank, Digits(3),
                     FirstScore(Digits(20))),
          SurveyForm("existing", Blank, <<"", "">>, Digits(1), Blank, Digits(3),
                     FirstScore(Digits(10))),
          SurveyForm("new", Absent, <<"ann", "">>, Digits(1), Blank, Digits(3),
                     FirstScore(Digits(10))),
          SurveyForm("new", Absent, <<"ann", "a@x">>, Absent, Blank, Digits(3),
                     FirstScore(Digits(10))),
          SurveyForm("new", Absent, <<"ann", "a@x">>, Digits(1), Blank, Absent,
                     FirstScore(Digits(10))),
          SurveyForm("new", Absent, <<"ann", "a@x">>, Digits(1), Blank, Digits(3),
                     MissingScore)}

MemberForm(member_id, crew_id, person) ==
    [member_id |-> member_id, crew_id |-> crew_id, name |-> person[1], email |-> person[2],
     age |-> Blank, skill_level |-> Absent]

AddForms ==
    {MemberForm(Absent, Digits(1), <<"ann", "a@x">>),
     MemberForm(Absent, Digits(2), <<"bob", "b@x">>),
     MemberForm(Absent, Absent, <<"ann", "a@x">>),
     MemberForm(Absent, Digits(1), <<"", "a@x">>)}

EditForms ==
    {MemberForm(Digits(id), Digits(1), <<"bob", "b@x">>) : id \in 1..MaxMemberId}
    \cup {MemberForm(Absent, Digits(1), <<"bob", "b@x">>),
          MemberForm(Digits(1), Digits(1), <<"", "b@x">>)}

DeleteForms ==
    {MemberForm(Digits(id), Digits(1), <<"", "">>) : id \in 1..MaxMemberId}
    \cup {MemberForm(Absent, Digits(1), <<"", "">>)}

\* The imported catalog, no crew member and no score row yet.
Init ==
    /\ programs = ProgramIds
    /\ itineraries = BaseItineraries
    /\ itinerary_programs = BaseAvailability
    /\ crew_members = {}
    /\ program_scores = EmptyBag
    /\ crew_preferences = <<>>
    /\ request = NoRequest
    /\ response = NoResponse

Next ==
    \/ \E form \in SurveyForms : SubmitSurvey(form)
    \/ \E form \in AddForms : AddMember(form)
    \/ \E form \in EditForms : EditMember(form)
    \/ \E form \in DeleteForms : DeleteMember(form)

Spec == Init /\ [][Next]_vars

\* The forms of POST /scores.  No two keys of a form name the same member and
\* program.
ScoreForms ==
    {{},
     {ScoreEntry("score_m_p", 1, 1, Digits(10)), ScoreEntry("score_m_p", 1, 2, Digits(20))},
     {ScoreEntry("score_m_p", 2, 1, Digits(10))},
     {ScoreEntry("score_m_p", 1, 1, Digits(10)), ScoreEntry("score_m_p", 2, 1, Blank),
      ScoreEntry("score_m_p", 1, 2, Text), ScoreEntry("score_x_p", 0, 1, Digits(20)),
      ScoreEntry("score_m", 2, 0, Digits(20)), ScoreEntry("other", 0, 0, Digits(20))}}

\* The surveys sent between bulk saves: a new member for either crew, and an
\* existing member named with its own crew or with the other one.
ScoresSurveyForms ==
    {SurveyForm("new", Absent, <<"bob", "b@x">>, Digits(c), Blank, Digits(3),
                FirstScore(Digits(20))) : c \in CrewIds}
    \cup {SurveyForm("existing", Digits(id), <<"", "">>, Digits(c), Blank, Digits(3),
                     FirstScore(Digits(20))) : id \in 1..MaxMemberId, c \in CrewIds}

\* Every handler that writes crew members or score rows.
NextScores ==
    \/ \E form \in ScoresSurveyForms : SubmitSurvey(form)
    \/ \E form \in ScoreForms : SaveScores(form)
    \/ \E form \in AddForms : AddMember(form)
    \/ \E form \in EditForms : EditMember(form)
    \/ \E form \in DeleteForms : DeleteMember(form)

SpecScores == Init /\ [][NextScores]_vars

-----------------------------------------------------------------------------
(* The preferences handler and the results page *)

\* 'key' in request.form, as SQLite stores the bool.
Checked(form, key) == IF key \in form.checked THEN Some(1) ELSE Some(0)

\* The column values save_preferences binds (lines 349-366 and 377-394).
PreferenceValues(form) ==
    [crew_id |-> 1,
     area_important |-> Checked(form, "area_important"),
     area_rank_south |-> safe_int(FormGet(form.area_rank_south, PyNone)).value,
     area_rank_central |-> safe_int(FormGet(form.area_rank_central, PyNone)).value,
     area_rank_north |-> safe_int(FormGet(form.area_rank_north, PyNone)).value,
     area_rank_valle_vidal |-> safe_int(FormGet(form.area_rank_valle_vidal, PyNone)).value,
     max_altitude_important |-> Checked(form, "max_altitude_important"),
     max_altitude_threshold |-> safe_int(FormGet(form.max_altitude_threshold, PyNone)).value,
     difficulty_challenging |-> Checked(form, "difficulty_challenging"),
     difficulty_rugged |-> Checked(form, "difficulty_rugged"),
     difficulty_strenuous |-> Checked(form, "difficulty_strenuous"),
     difficulty_super_strenuous |-> Checked(form, "difficulty_super_strenuous"),
     climb_baldy |-> Checked(form, "climb_baldy"),
     climb_phillips |-> Checked(form, "climb_phillips"),
     climb_tooth |-> Checked(form, "climb_tooth"),
     climb_inspiration_point |-> Checked(form, "climb_inspiration_point"),
     programs_important |-> Checked(form, "programs_important")]

\* An INSERT whether or not the crew has a row.
InsertPreferences(form) == Append(crew_preferences, PreferenceValues(form))

\* The table after save_preferences: UPDATE ... WHERE crew_id = 1 if the
\* SELECT found a row of crew 1, else INSERT.
SavedPreferences(form) ==
    IF \E i \in DOMAIN crew_preferences : crew_preferences[i].crew_id = 1
    THEN [i \in DOMAIN crew_preferences |->
             IF crew_preferences[i].crew_id = 1 THEN PreferenceValues(form)
             ELSE crew_preferences[i]]
    ELSE Append(crew_preferences, PreferenceValues(form))

\* POST /preferences
SavePreferences(form) ==
    /\ request' = [op |-> "save_preferences", crew_id |-> 1, form |-> form]
    /\ response' = [status |-> "redirect", flash |-> "success",
                    existing |-> \E i \in DOMAIN crew_preferences :
                                    crew_preferences[i].crew_id = 1]
    /\ crew_preferences' = SavedPreferences(form)
    /\ UNCHANGED <<crew_members, program_scores, catalog>>

\* The caller still holds a ranking computed with the method: no request
\* has been made since it was computed.
HoldsRanking(method) == "catalog_order" \in DOMAIN response /\ response.method = method

\* A results page that stores the defaults for a crew without preferences.
ResultsStoringDefaults(method) ==
    /\ \E scores \in ScoreQuery(1), itins \in ItineraryQuery :
          response' = [status |-> calculate_itinerary_scores(1, method, scores, itins).status,
                       results |-> calculate_itinerary_scores(1, method, scores, itins).results,
                       fetched |-> scores, catalog_order |-> itins, method |-> method]
    /\ request' = [op |-> "results", crew_id |-> 1, method |-> method,
                   after |-> request.op, repeated |-> HoldsRanking(method)]
    /\ crew_preferences' =
          IF get_crew_preferences(1) = None
          THEN Append(crew_preferences, PrefRow(1, Some(0), NoRanks, Some(0), Some(10000), AllTrue))
          ELSE crew_preferences
    /\ UNCHANGED <<crew_members, program_scores, catalog>>

\* GET /results?method=: the ranking of crew 1.  An exception of the scorer
\* is not caught.  The request notes what was called before it and whether
\* the caller holds an earlier ranking for the method.
Results(method) ==
    /\ \E scores \in ScoreQuery(1), itins \in ItineraryQuery :
          response' = [status |-> calculate_itinerary_scores(1, method, scores, itins).status,
                       results |-> calculate_itinerary_scores(1, method, scores, itins).results,
                       fetched |-> scores, catalog_order |-> itins, method |-> method]
    /\ request' = [op |-> "results", crew_id |-> 1, method |-> method,
                   after |-> request.op, repeated |-> HoldsRanking(method)]
    /\ UNCHANGED <<crew_members, program_scores, crew_preferences, catalog>>

\* PhilmontScorer(1).get_program_scores(method)
ProgramScores(method) ==
    /\ \E scores \in ScoreQuery(1) :
          response' = [status |-> "ok", program_scores |-> get_program_scores(scores, method),
                       fetched |-> scores, method |-> method]
    /\ request' = [op |-> "get_program_scores", crew_id |-> 1, method |-> method]
    /\ UNCHANGED <<crew_members, program_scores, crew_preferences, catalog>>

\* A recalculation that replaces the crew's score rows by what it computed.
RecalculateStoringTotals(crew_id) ==
    /\ request' = [op |-> "recalculate_crew_scores", crew_id |-> crew_id]
    /\ program_scores' =
          LET kept == {r \in BagToSet(program_scores) : r.crew_id # crew_id}
          IN  [r \in kept |-> program_scores[r]]
    /\ UNCHANGED <<crew_members, crew_preferences, catalog, response>>

\* recalculate_crew_scores(crew_id): computes the Total, Average and Median
\* tables, prints their sizes and stamps crews.updated_at, a column of a
\* table no scorer reads.  The caller gets nothing back.
RecalculateCrewScores(crew_id) ==
    /\ \A method \in {"Total", "Average", "Median"} : \A scores \in ScoreQuery(crew_id) :
          DOMAIN get_program_scores(scores, method) \subseteq programs
    /\ request' = [op |-> "recalculate_crew_scores", crew_id |-> crew_id]
    /\ UNCHANGED <<crew_members, program_scores, crew_preferences, catalog, response>>

\* invalidate_crew_cache(crew_id): pass.
InvalidateCrewCache(crew_id) ==
    /\ request' = [op |-> "invalidate_crew_cache", crew_id |-> crew_id]
    /\ UNCHANGED <<crew_members, program_scores, crew_preferences, catalog, response>>

PreferencesForm(checked, ranks, threshold) ==
    [checked |-> checked, area_rank_south |-> ranks[1], area_rank_central |-> ranks[2],
     area_rank_north |-> ranks[3], area_rank_valle_vidal |-> ranks[4],
     max_altitude_threshold |-> threshold]

AllTiers == {"difficulty_challenging", "difficulty_rugged", "difficulty_strenuous",
             "difficulty_super_strenuous"}

PreferencesForms ==
    {PreferencesForm(tiers \cup boxes, ranks, threshold) :
        tiers \in {AllTiers, {"difficulty_challenging"}},
        boxes \in {{}, {"max_altitude_important"}, {"area_important", "max_altitude_important"}},
        ranks \in {<<Blank, Blank, Blank, Blank>>, <<Digits(1), Digits(2), Absent, Digits(4)>>,
                   <<Digits(6), Blank, Digits(0), Blank>>},
        threshold \in {Blank, Digits(10000), Digits(9000)}}

\* The database after the import: the catalog, the sample crew and its
\* default preferences row, or no preferences row.
InitPrefs ==
    /\ programs = ProgramIds
    /\ itineraries = BaseItineraries \cup
                     {Itinerary(3, 3, Some("R"), Some(50), None,
                                <<Some(1), Some(0), Some(1), Some(0)>>)}
    /\ itinerary_programs = BaseAvailability
    /\ crew_members = SampleMembers
    /\ program_scores = SetToBag({ScoreRow(1, 1, 1, 20)})
    /\ crew_preferences \in {<<>>, <<PrefRow(1, Some(1), NoRanks, Some(0), None, AllTrue)>>}
    /\ request = NoRequest
    /\ response = NoResponse

NextPrefs ==
    \/ \E form \in PreferencesForms : SavePreferences(form)
    \/ \E method \in Methods : Results(method)
    \/ \E method \in Methods : ProgramScores(method)
    \/ \E crew_id \in CrewIds : RecalculateCrewScores(crew_id)
    \/ \E crew_id \in CrewIds : InvalidateCrewCache(crew_id)

SpecPrefs == InitPrefs /\ [][NextPrefs]_vars

\* Preference saves and member edits that differ in the fields no component
\* reads (programs_important, the climb_* flags; name, email, age and skill
\* level), and some that differ in the area ranking as well.
UnreadBoxes == {"programs_important", "climb_baldy", "climb_phillips", "climb_tooth",
                "climb_inspiration_point"}

UnreadFieldForms ==
    {PreferencesForm(AllTiers \cup {"area_important"} \cup boxes, ranks, Blank) :
        boxes \in {{}, {"programs_important"}, {"climb_baldy", "climb_tooth"}, UnreadBoxes},
        ranks \in {<<Blank, Blank, Blank, Blank>>, <<Digits(1), Digits(2), Absent, Digits(4)>>}}

UnreadFieldEdits ==
    {[MemberForm(Digits(id), Digits(1), <<"bob", "b@x">>)
         EXCEPT !.age = Digits(17), !.skill_level = Digits(5)] : id \in 1..MaxMemberId}
    \cup {MemberForm(Digits(1), Digits(1), <<"ann", "">>)}

NextUnread ==
    \/ \E form \in UnreadFieldForms : SavePreferences(form)
    \/ \E form \in UnreadFieldEdits : EditMember(form)
    \/ \E method \in Methods : Results(method)

SpecUnread == InitPrefs /\ [][NextUnread]_vars

-----------------------------------------------------------------------------
(* Properties of the ranker *)

Calculated == request.op = "api_calculate"

Ranked == Calculated /\ response.status = "ok"

\* C1: calculate_itinerary_scores returns every itinerary exactly once, in
\* an order in which total_score never increases, and the ranking of each entry
\* is its 1-based position.
C1_RanksEveryItinerary ==
    Calculated =>
        /\ response.status = "ok"
        /\ Len(response.results) = Cardinality(itineraries)
        /\ {response.results[i].itinerary : i \in DOMAIN response.results} = itineraries
        /\ \A i \in 1..(Len(response.results) - 1) :
              ~NumLess(response.results[i].total_score, response.results[i + 1].total_score)
        /\ \A i \in DOMAIN response.results : response.results[i].ranking = i

\* Position of an itinerary in the order the itinerary query fetched.
CatalogPosition(itin) ==
    CHOOSE i \in DOMAIN response.catalog_order : response.catalog_order[i] = itin

\* C2: ranking is stable: of two itineraries with equal total_score the one
\* that comes first in catalog order (ascending itinerary_code) comes first in
\* the output and gets the smaller ranking.
C2_StableRanking ==
    Ranked =>
        \A i, j \in DOMAIN response.results :
            LET a == response.results[i]
                b == response.results[j]
            IN  /\ a.total_score = b.total_score
                /\ \/ a.itinerary.itinerary_code < b.itinerary.itinerary_code
                   \/ CatalogPosition(a.itinerary) < CatalogPosition(b.itinerary)
                => i < j /\ a.ranking < b.ranking

\* Two itineraries tie, a third with a larger code outranks both.
C2_Witness ==
    /\ Ranked
    /\ \E i, j, k \in DOMAIN response.results :
          LET a == response.results[i]
              b == response.results[j]
              c == response.results[k]
          IN  /\ a.total_score = b.total_score
              /\ a.itinerary.itinerary_code < b.itinerary.itinerary_code
              /\ a.itinerary.id > b.itinerary.id
              /\ i < j
              /\ NumLess(a.total_score, c.total_score)
              /\ c.itinerary.itinerary_code > b.itinerary.itinerary_code
              /\ k < i

-----------------------------------------------------------------------------
(* Properties of the aggregator and of the program score table *)

Aggregated == request.op = "get_program_scores"

KnownMethods == {"Total", "Average", "Median", "Mode"}

\* The scores of one program among the fetched rows, in row order.
FetchedGroup(p) ==
    LET g == SelectSeq(response.fetched, LAMBDA r : r.id = p)
    IN  [i \in DOMAIN g |-> g[i].score]

\* The program_scores rows of a crew for a program, one per copy.
CrewProgramRows(crew_id, p) ==
    {c \in BagRows(program_scores) : c[1].crew_id = crew_id /\ c[1].program_id = p}

RECURSIVE RowScoreSum(_)
RowScoreSum(rows) ==
    IF rows = {} THEN 0
    ELSE LET c == CHOOSE x \in rows : TRUE IN c[1].score + RowScoreSum(rows \ {c})

\* C4: a method other than exactly Total, Average, Median, Mode aggregates
\* as Total does, so get_program_scores and calculate_itinerary_scores answer
\* as with Total, and the method itself raises nothing.
C4_FallbackIsTotal ==
    /\ Aggregated /\ request.method \notin KnownMethods =>
          /\ response.status = "ok"
          /\ \A p \in DOMAIN response.program_scores :
                /\ calculate_aggregate(FetchedGroup(p), request.method)
                      = calculate_aggregate(FetchedGroup(p), "Total")
                /\ response.program_scores[p]
                      = Int2Num(RowScoreSum(CrewProgramRows(request.crew_id, p)))
          /\ response.program_scores = get_program_scores(response.fetched, "Total")
    /\ Calculated /\ request.method \notin KnownMethods =>
          LET total == calculate_itinerary_scores(request.crew_id, "Total", response.fetched,
                                                  response.catalog_order)
          IN  response.status = total.status /\ response.results = total.results

\* A ranking under 'Bogus' for a crew whose two members gave program 1 the
\* scores 20 and 10: the itinerary offering it gets 1.5 * 30, where Average
\* and Median would give 1.5 * 15 and Mode 1.5 * 20.
C4_Witness ==
    /\ Ranked /\ request.method = "Bogus"
    /\ FetchedGroup(1) = <<20, 10>>
    /\ \E i \in DOMAIN response.results :
          response.results[i].components.program_score = Int2Num(45)

\* The k-th smallest of a non-empty list.
KthSmallest(list, k) ==
    CHOOSE v \in {list[i] : i \in DOMAIN list} :
        /\ Cardinality({i \in DOMAIN list : list[i] < v}) < k
        /\ Cardinality({i \in DOMAIN list : list[i] <= v}) >= k

\* C5: Total is the sum, Average the sum divided by the count, Median the
\* central value of the ascending list for an odd count and the mean of the two
\* central values for an even count.
C5_TotalAverageMedian ==
    Aggregated =>
        \A p \in DOMAIN response.program_scores :
            LET list == FetchedGroup(p)
                n == Len(list)
                value == response.program_scores[p]
            IN  /\ n > 0
                /\ request.method = "Total" => value = Int2Num(sum(list))
                /\ request.method = "Average" =>
                      value.d > 0 /\ value.n * n = sum(list) * value.d
                /\ request.method = "Median" /\ n % 2 = 1 =>
                      value = Int2Num(KthSmallest(list, (n + 1) \div 2))
                /\ request.method = "Median" /\ n % 2 = 0 =>
                      /\ value.d > 0
                      /\ 2 * value.n = (KthSmallest(list, n \div 2)
                                          + KthSmallest(list, n \div 2 + 1)) * value.d
                /\ list = <<10, 20, 30>> =>
                      /\ request.method = "Total" => value = Int2Num(60)
                      /\ request.method \in {"Average", "Median"} => value = Int2Num(20)
                /\ list = <<10, 20, 30, 40>> /\ request.method = "Median" =>
                      value = Int2Num(25)

\* Median of the scores 40, 10, 30, 20 of four members, fetched in member order.
C5_Witness ==
    /\ Aggregated /\ request.method = "Median" /\ request.crew_id = 1
    /\ 1 \in DOMAIN response.program_scores
    /\ FetchedGroup(1) = <<40, 10, 30, 20>>
    /\ response.program_scores[1] = Int2Num(25)

\* How often a score occurs among a crew's rows for a program, and the
\* smallest member id that gave it.
Frequency(crew_id, p, v) ==
    Cardinality({c \in CrewProgramRows(crew_id, p) : c[1].score = v})

FirstMember(crew_id, p, v) ==
    CHOOSE m \in {c[1].crew_member_id : c \in {x \in CrewProgramRows(crew_id, p) : x[1].score = v}} :
        \A c \in CrewProgramRows(crew_id, p) : c[1].score = v => m <= c[1].crew_member_id

\* C6: Mode is a score of maximal frequency among the program's rows, and
\* among the scores tied for it the one met first in row order, which is
\* ascending crew_member_id.
C6_ModeFirstInRowOrder ==
    Aggregated /\ request.method = "Mode" =>
        \A p \in DOMAIN response.program_scores :
            LET crew == request.crew_id
                given == {c[1].score : c \in CrewProgramRows(crew, p)}
                value == response.program_scores[p]
            IN  /\ value.d = 1
                /\ value.n \in given
                /\ \A v \in given :
                      /\ Frequency(crew, p, v) <= Frequency(crew, p, value.n)
                      /\ Frequency(crew, p, v) = Frequency(crew, p, value.n) =>
                            FirstMember(crew, p, value.n) <= FirstMember(crew, p, v)
                /\ FetchedGroup(p) = <<10, 20, 30>> => value = Int2Num(10)

\* Members 1..4 score 30, 10, 10, 30: both values occur twice, 30 comes first.
C6_Witness ==
    /\ Aggregated /\ request.method = "Mode" /\ request.crew_id = 1
    /\ 1 \in DOMAIN response.program_scores
    /\ FetchedGroup(1) = <<30, 10, 10, 30>>
    /\ response.program_scores[1] = Int2Num(30)

\* C7: the keys of get_program_scores are the catalog programs with at
\* least one program_scores row of the crew, and each entry aggregates all and
\* only the crew's rows for its program.
C7_KeysAreScoredCatalogPrograms ==
    Aggregated =>
        /\ DOMAIN response.program_scores =
              {p \in programs : CrewProgramRows(request.crew_id, p) # {}}
        /\ \A p \in DOMAIN response.program_scores :
              /\ Len(FetchedGroup(p)) = Cardinality(CrewProgramRows(request.crew_id, p))
              /\ \A v \in {FetchedGroup(p)[i] : i \in DOMAIN FetchedGroup(p)}
                          \cup {c[1].score : c \in CrewProgramRows(request.crew_id, p)} :
                    Cardinality({i \in DOMAIN FetchedGroup(p) : FetchedGroup(p)[i] = v})
                       = Frequency(request.crew_id, p, v)
              /\ response.program_scores[p]
                    = calculate_aggregate(FetchedGroup(p), request.method)
              /\ request.method = "Total" =>
                    response.program_scores[p]
                       = Int2Num(RowScoreSum(CrewProgramRows(request.crew_id, p)))

\* Crew 1 scored program 1 only; the table also holds a row of crew 1 for a
\* program missing from the catalog and a row of crew 2.
C7_Witness ==
    /\ Aggregated /\ request.method = "Total" /\ request.crew_id = 1
    /\ DOMAIN response.program_scores = {1}
    /\ NumPrograms \in programs \ {1}
    /\ CrewProgramRows(1, UnknownProgram) # {}
    /\ CrewProgramRows(2, 1) # {}
    /\ Cardinality(CrewProgramRows(1, 1)) >= 2
    /\ response.program_scores[1] = Int2Num(RowScoreSum(CrewProgramRows(1, 1)))

-----------------------------------------------------------------------------
(* Properties of the component scores *)

\* The aggregate map the ranking was computed from.
AggregateMap == get_program_scores(response.fetched, request.method)

\* The programs an itinerary makes available.
Offered(itin) ==
    {ip.program_id : ip \in {x \in itinerary_programs :
                                x.itinerary_id = itin.id /\ x.is_available = Some(1)}}

\* C8: the program component is 1.5 times the sum, over the programs the
\* itinerary makes available, of the crew's aggregate for the program, counting
\* 0 for a program without an aggregate; it is 0 with no available program.
C8_ProgramComponent ==
    Ranked =>
        \A i \in DOMAIN response.results :
            LET offered == Offered(response.results[i].itinerary)
                terms == [p \in offered |->
                             IF p \in DOMAIN AggregateMap THEN AggregateMap[p] ELSE Zero]
                total == SetNumSum(offered, terms)
                component == response.results[i].components.program_score
            IN  /\ component.d > 0
                /\ 2 * component.n * total.d = 3 * total.n * component.d
                /\ offered = {} => component = Zero
                /\ offered \cap DOMAIN AggregateMap = {} => component = Zero

\* Aggregates 40 and 60 of the two offered catalog programs give 150; the
\* itinerary also offers a program that has no aggregate.
C8_Witness ==
    /\ Ranked
    /\ DOMAIN AggregateMap = {1, 2}
    /\ AggregateMap[1] = Int2Num(40) /\ AggregateMap[2] = Int2Num(60)
    /\ \E i \in DOMAIN response.results :
          /\ Offered(response.results[i].itinerary) = {1, 2, UnknownProgram}
          /\ response.results[i].components.program_score = Int2Num(150)

TierFlag == [C |-> "difficulty_challenging", R |-> "difficulty_rugged",
             S |-> "difficulty_strenuous", SS |-> "difficulty_super_strenuous"]

C10_AreaComponent ==
    Ranked =>
        \A i \in DOMAIN response.results :
            LET itin == response.results[i].itinerary
                score == response.results[i].components.area_score
                prefs == SelectSeq(crew_preferences, LAMBDA r : r.crew_id = request.crew_id)
                important == prefs # <<>> /\ prefs[1].area_important \notin {None, Some(0)}
                Region(cover, rank) ==
                    IF itin[cover] \notin {None, Some(0)} /\ prefs[1][rank] \notin {None, Some(0)}
                    THEN (5 - prefs[1][rank][1]) * 25 ELSE 0
            IN  IF ~important THEN score = Zero
                ELSE score = Int2Num(Region("covers_south", "area_rank_south")
                                     + Region("covers_central", "area_rank_central")
                                     + Region("covers_north", "area_rank_north")
                                     + Region("covers_valle_vidal", "area_rank_valle_vidal"))

\* South and north covered, ranked 1 and 3, with the uncovered regions ranked
\* too: 100 + 50.
C10_Witness ==
    /\ Ranked
    /\ crew_preferences # <<>>
    /\ crew_preferences[1].area_important = Some(1)
    /\ crew_preferences[1].area_rank_south = Some(1)
    /\ crew_preferences[1].area_rank_north = Some(3)
    /\ crew_preferences[1].area_rank_central = Some(1)
    /\ crew_preferences[1].area_rank_valle_vidal = Some(6)
    /\ \E i \in DOMAIN response.results :
          /\ response.results[i].itinerary.covers_south = Some(1)
          /\ response.results[i].itinerary.covers_north = Some(1)
          /\ response.results[i].itinerary.covers_central = Some(0)
          /\ response.results[i].itinerary.covers_valle_vidal = Some(0)
          /\ response.results[i].components.area_score = Int2Num(150)


\* The preferences record the scorer read for the request, <<>> if none.
RequestPrefs == SelectSeq(crew_preferences, LAMBDA r : r.crew_id = request.crew_id)

\* C11: in every entry the scorer returns, the altitude component is 50
\* exactly when the crew's altitude-importance flag is set and the
\* itinerary's maximum altitude, 0 when unset, is at most the crew's
\* configured threshold; it is 0 when the flag is false or unset, when there
\* is no preferences record, and when the altitude is above the threshold.
C11_AltitudeComponent ==
    Ranked =>
        \A i \in DOMAIN response.results :
            LET itin == response.results[i].itinerary
                score == response.results[i].components.altitude_score
                altitude == IF itin.max_altitude = None THEN 0 ELSE itin.max_altitude[1]
                important == /\ RequestPrefs # <<>>
                             /\ RequestPrefs[1].max_altitude_important \notin {None, Some(0)}
            IN  /\ score \in {Zero, Int2Num(50)}
                /\ score = Int2Num(50) <=>
                      important /\ altitude <= RequestPrefs[1].max_altitude_threshold[1]

\* With threshold 10000: 50 for the itineraries at 10000, below it and with
\* no altitude, 0 for those above.
C11_Witness ==
    /\ Ranked
    /\ RequestPrefs # <<>>
    /\ RequestPrefs[1].max_altitude_important = Some(1)
    /\ RequestPrefs[1].max_altitude_threshold = Some(10000)
    /\ \E i, j, k \in DOMAIN response.results :
          /\ response.results[i].itinerary.max_altitude = Some(10000)
          /\ response.results[i].components.altitude_score = Int2Num(50)
          /\ response.results[j].itinerary.max_altitude = None
          /\ response.results[j].components.altitude_score = Int2Num(50)
          /\ response.results[k].itinerary.max_altitude = Some(10001)
          /\ response.results[k].components.altitude_score = Zero

\* C12: when the crew's record has altitude importance set and no threshold,
\* as after a save with the box checked and the threshold field blank,
\* scoring completes with the default threshold 10000: altitude component 50
\* for the itineraries whose maximum altitude is unset or at most 10000, and
\* 0 for the others.
C12_DefaultThreshold ==
    /\ request.op = "results"
    /\ RequestPrefs # <<>>
    /\ RequestPrefs[1].max_altitude_important = Some(1)
    /\ RequestPrefs[1].max_altitude_threshold = None
    => /\ response.status = "ok"
       /\ Len(response.results) = Cardinality(itineraries)
       /\ \A i \in DOMAIN response.results :
             LET itin == response.results[i].itinerary IN
             response.results[i].components.altitude_score =
                 IF itin.max_altitude = None \/ itin.max_altitude[1] <= 10000
                 THEN Int2Num(50) ELSE Zero

\* C13: the distance component of every entry is max(0, 100 - |d - 50|),
\* where d is the itinerary's recorded distance for every recorded
\* non-negative value and 50 only when the distance is unset; it is never
\* negative and never above 100.
C13_DistanceComponent ==
    Ranked =>
        \A i \in DOMAIN response.results :
            LET itin == response.results[i].itinerary
                score == response.results[i].components.distance_score
                d == IF itin.distance = None THEN 50 ELSE itin.distance[1]
            IN  /\ score = Int2Num(IF Abs(d - 50) >= 100 THEN 0 ELSE 100 - Abs(d - 50))
                /\ NumLeq(Zero, score) /\ NumLeq(score, Int2Num(100))

\* C14: in every entry the scorer returns, total_score is the sum of the
\* program, difficulty, area, altitude and distance components and nothing
\* else.
C14_TotalIsSumOfComponents ==
    Ranked =>
        \A i \in DOMAIN response.results :
            LET c == response.results[i].components IN
            /\ DOMAIN c = {"program_score", "difficulty_score", "area_score",
                           "altitude_score", "distance_score"}
            /\ response.results[i].total_score =
                  NumAdd(c.program_score,
                         NumAdd(c.difficulty_score,
                                NumAdd(c.area_score,
                                       NumAdd(c.altitude_score, c.distance_score))))

\* An entry with positive program, difficulty, area and distance components
\* and altitude component 0.
C14_Witness ==
    /\ Ranked
    /\ \E i \in DOMAIN response.results :
          LET c == response.results[i].components IN
          /\ NumLess(Zero, c.program_score)
          /\ c.difficulty_score = Int2Num(100)
          /\ NumLess(Zero, c.area_score)
          /\ c.altitude_score = Zero
          /\ c.distance_score = Int2Num(70)
          /\ response.results[i].total_score =
                NumAdd(c.program_score, NumAdd(c.area_score, Int2Num(170)))

\* C15: for a crew without preferences record the scorer completes, and
\* every itinerary of tier C, R, S or SS gets difficulty component 100,
\* area component 0 and altitude component 0.
C15_NoPreferencesRecord ==
    Calculated /\ RequestPrefs = <<>> =>
        /\ response.status = "ok"
        /\ Len(response.results) = Cardinality(itineraries)
        /\ \A i \in DOMAIN response.results :
              LET itin == response.results[i].itinerary
                  c == response.results[i].components
              IN  itin.difficulty \in {Some("C"), Some("R"), Some("S"), Some("SS")} =>
                      /\ c.difficulty_score = Int2Num(100)
                      /\ c.area_score = Zero
                      /\ c.altitude_score = Zero

\* Crew 2 has no record while crew 1 has one that rejects tier R and ranks
\* the south first: in crew 2's ranking the tier R itinerary still gets 100
\* and the itinerary that covers the south gets no area points.
C15_Witness ==
    /\ Calculated
    /\ request.crew_id = 2
    /\ crew_preferences # <<>>
    /\ crew_preferences[1].crew_id = 1
    /\ crew_preferences[1].area_important = Some(1)
    /\ crew_preferences[1].area_rank_south = Some(1)
    /\ crew_preferences[1].difficulty_rugged = Some(0)
    /\ response.status = "ok"
    /\ \E i, j \in DOMAIN response.results :
          /\ response.results[i].itinerary.difficulty = Some("R")
          /\ response.results[i].components.difficulty_score = Int2Num(100)
          /\ response.results[j].itinerary.covers_south = Some(1)
          /\ response.results[j].components.area_score = Zero
          /\ response.results[j].components.altitude_score = Zero

-----------------------------------------------------------------------------
(* Properties of the preferences handler *)

CrewPreferenceRows(crew_id) == SelectSeq(crew_preferences, LAMBDA r : r.crew_id = crew_id)

\* C20: after any sequence of save_preferences requests, started with or
\* without a record, every crew has at most one crew_preferences row; a save
\* leaves exactly one row for its crew, holding the saved values: the first
\* save inserts it and every later save updates it in place.
C20_OnePreferencesRowPerCrew ==
    /\ \A crew_id \in CrewIds : Len(CrewPreferenceRows(crew_id)) <= 1
    /\ request.op = "save_preferences" =>
          /\ Len(crew_preferences) = 1
          /\ crew_preferences[1] = PreferenceValues(request.form)

\* A save that found a row and changed its threshold and flags.
C20_Witness ==
    /\ request.op = "save_preferences"
    /\ response.existing
    /\ Len(crew_preferences) = 1
    /\ crew_preferences[1].max_altitude_threshold = Some(9000)
    /\ crew_preferences[1].difficulty_rugged = Some(0)
    /\ crew_preferences[1].area_rank_south = Some(1)

-----------------------------------------------------------------------------
(* Properties of the scoring path *)

Tables == <<crew_members, program_scores, crew_preferences, programs, itineraries,
            itinerary_programs>>

C17_ScoringIsPureRead ==
    [][/\ request'.op \in {"results", "get_program_scores", "invalidate_crew_cache"} =>
            Tables' = Tables
       /\ request'.op = "invalidate_crew_cache" => response' = response]_vars

\* The hook called on a crew with preferences and scores, after a ranking.
C17_Witness ==
    /\ request.op = "invalidate_crew_cache"
    /\ "catalog_order" \in DOMAIN response
    /\ response.status = "ok"
    /\ crew_preferences # <<>>
    /\ program_scores # EmptyBag

-----------------------------------------------------------------------------
(* Properties of the survey submission *)

SurveySucceeded == request.op = "submit_survey" /\ response.flash = "success"

\* The program_scores rows of one member, as a bag.
MemberRows(member_id) ==
    LET own == {r \in BagToSet(program_scores) : r.crew_member_id = member_id}
    IN  [r \in own |-> program_scores[r]]

\* The rows the submitted form asks for: one per catalog program with a score.
SubmittedRows ==
    {ScoreRow(request.form.crew_id.int, response.member_id[1], p, request.form.programs[p].int) :
        p \in {q \in programs : request.form.programs[q].kind = "digits"}}

\* The rows of a crew for a program that belong to other members.
OthersRows(crew_id, p, member_id) ==
    {c \in CrewProgramRows(crew_id, p) : c[1].crew_member_id # member_id}

\* C3: after a member's survey is submitted again, the member's persisted
\* score rows are exactly the rows of the latest submission (none of the
\* earlier ones survive, none is merged or averaged), and the crew's program
\* score table counts for that member only the latest scores: each Total is
\* the other members' rows plus the latest score of this member.
C3_ResubmissionReplaces ==
    SurveySucceeded =>
        LET member_id == response.member_id[1]
            form == request.form
            latest(crew_id, p) ==
                IF crew_id = form.crew_id.int /\ form.programs[p].kind = "digits"
                THEN <<form.programs[p].int>> ELSE <<>>
        IN  /\ MemberRows(member_id) = SetToBag(SubmittedRows)
            /\ \A crew_id \in CrewIds : \A scores \in ScoreQuery(crew_id) :
                   LET table == get_program_scores(scores, "Total") IN
                   \A p \in programs :
                      /\ p \in DOMAIN table <=>
                            OthersRows(crew_id, p, member_id) # {} \/ latest(crew_id, p) # <<>>
                      /\ p \in DOMAIN table =>
                            table[p] = Int2Num(RowScoreSum(OthersRows(crew_id, p, member_id))
                                               + sum(latest(crew_id, p)))

\* A second submission of a member whose earlier rows held another score for
\* some program, in a crew where another member has rows too.
C3_Witness ==
    /\ SurveySucceeded
    /\ \E old \in BagToSet(response.deleted), new \in SubmittedRows :
          /\ old.crew_id = new.crew_id
          /\ old.program_id = new.program_id
          /\ old.score # new.score
    /\ \E r \in BagToSet(program_scores) :
          /\ r.crew_id = request.form.crew_id.int
          /\ r.crew_member_id # response.member_id[1]


\* The rows of program_scores that belong to other members, as a bag.
OtherMembersRows(scores, member_id) ==
    LET others == {r \in BagToSet(scores) : r.crew_member_id # member_id}
    IN  [r \in others |-> scores[r]]

\* C18: a survey submission is atomic.  A submission that succeeds shows the
\* member row, the deletion of the member's earlier scores and the new scores
\* together: the member's rows are the submitted ones, every other member's
\* rows are as before, and a newly created member row is the submitting
\* member's.  A submission that does not succeed leaves members and program
\* scores exactly as they were.
C18_SurveyIsAtomic ==
    [][request'.op = "submit_survey" =>
          IF response'.flash = "success"
          THEN LET member_id == response'.member_id[1]
                   form == request'.form
                   own == {r \in BagToSet(program_scores') : r.crew_member_id = member_id}
               IN  /\ [r \in own |-> program_scores'[r]] =
                         SetToBag({ScoreRow(form.crew_id.int, member_id, p, form.programs[p].int) :
                                   p \in {q \in programs : form.programs[q].kind = "digits"}})
                   /\ OtherMembersRows(program_scores', member_id) =
                         OtherMembersRows(program_scores, member_id)
                   /\ \A m \in crew_members' :
                         (\A old \in crew_members : old.id # m.id) => m.id = member_id
          ELSE crew_members' = crew_members /\ program_scores' = program_scores]_vars

\* A submission that failed in the insert loop, after the statements that
\* update the matched member and delete the member's scores: the member
\* still has the earlier score 20 where the form gave 10.
C18_Witness ==
    /\ request.op = "submit_survey"
    /\ request.form.programs[NumPrograms].kind = "absent"
    /\ request.form.programs[1] = Digits(10)
    /\ response.flash = "error"
    /\ \E m \in crew_members :
          /\ m.crew_id = 1
          /\ m.email = request.form.email
          /\ ScoreRow(1, m.id, 1, 20) \in BagToSet(program_scores)

-----------------------------------------------------------------------------
(* Properties of the member deletion *)

\* C19: after delete_member succeeds for an existing member, no member row
\* and no program_scores row with that member's id remains, and every
\* crew's program score table is built from the other members' rows alone.
C19_DeleteCascades ==
    request.op = "delete_member" /\ response.flash = "success" =>
        LET member_id == response.member_id[1] IN
        /\ \A m \in crew_members : m.id # member_id
        /\ \A r \in BagToSet(program_scores) : r.crew_member_id # member_id
        /\ \A crew_id \in CrewIds : \A scores \in ScoreQuery(crew_id) :
              LET table == get_program_scores(scores, "Total") IN
              \A p \in programs :
                 /\ p \in DOMAIN table <=> OthersRows(crew_id, p, member_id) # {}
                 /\ p \in DOMAIN table =>
                       table[p] = Int2Num(RowScoreSum(OthersRows(crew_id, p, member_id)))

\* A deleted member who had score rows, in a crew where another member's
\* rows remain.
C19_Witness ==
    /\ request.op = "delete_member"
    /\ response.flash = "success"
    /\ \E gone \in BagToSet(response.deleted), r \in BagToSet(program_scores) :
          /\ r.crew_id = gone.crew_id
          /\ r.program_id = gone.program_id

-----------------------------------------------------------------------------
(* Properties of the member numbers and of the member matching *)

\* C21: no two members of a crew have the same member_number, and a member
\* created by add_member or submit_survey gets a number above every number
\* of its crew that is 1 or follows a number of the crew: the crew's
\* maximum plus one, 1 for a crew without members.
C21_SequentialMemberNumbers ==
    [][/\ \A m, n \in crew_members' :
            m.crew_id = n.crew_id /\ m.member_number = n.member_number => m = n
       /\ \A m \in crew_members' :
            m.id \notin {c.id : c \in crew_members} =>
               LET crew == {c \in crew_members : c.crew_id = m.crew_id} IN
               /\ request'.op \in {"add_member", "submit_survey"}
               /\ \A c \in crew : c.member_number < m.member_number
               /\ \/ m.member_number = 1
                  \/ \E c \in crew : c.member_number = m.member_number - 1]_vars

\* C21 witness: a second member was just created in a crew and holds number
\* 2 next to the member with number 1, while the other crew is empty.
C21_Witness ==
    /\ request.op \in {"add_member", "submit_survey"}
    /\ response.flash = "success"
    /\ \E m, n \in crew_members :
          /\ m.crew_id = n.crew_id
          /\ m.member_number = 1
          /\ n.member_number = 2
          /\ response.member_id = Some(n.id)

\* C22: an accepted survey of a new member updates in place a member of the
\* named crew that has the submitted email; without one, a member of that
\* crew that has the submitted name; without one either, it adds exactly
\* one member.  Sent again, the same survey adds no member.
C22_MemberMatching ==
    [][(/\ request'.op = "submit_survey"
        /\ request'.form.member_type = "new"
        /\ response'.flash = "success") =>
          LET form == request'.form
              crew == {m \in crew_members : m.crew_id = form.crew_id.int}
              by_email == {m \in crew : m.email = form.email}
              by_name == {m \in crew : m.name = form.name}
              Updated(matches) ==
                  \E target \in matches :
                     /\ response'.member_id = Some(target.id)
                     /\ \E updated \in crew_members' :
                           /\ crew_members' = (crew_members \ {target}) \cup {updated}
                           /\ updated.id = target.id
                           /\ updated.crew_id = target.crew_id
                           /\ updated.member_number = target.member_number
                           /\ updated.name = form.name
                           /\ updated.email = form.email
          IN  /\ IF by_email # {} THEN Updated(by_email)
                 ELSE IF by_name # {} THEN Updated(by_name)
                 ELSE /\ crew_members \subseteq crew_members'
                      /\ Cardinality(crew_members') = Cardinality(crew_members) + 1
              /\ (request.op = "submit_survey" /\ request.form = form
                      /\ response.flash = "success") =>
                    Cardinality(crew_members') = Cardinality(crew_members)]_vars

\* C22 witness: a survey with the name of one member and the email of
\* another was accepted and updated the member that had the email, so two
\* members carry the name now.
C22_Witness ==
    /\ request.op = "submit_survey"
    /\ request.form.member_type = "new"
    /\ response.flash = "success"
    /\ \E m, n \in crew_members :
          /\ m.id # n.id
          /\ m.crew_id = n.crew_id
          /\ m.name = request.form.name
          /\ m.email # request.form.email
          /\ n.name = request.form.name
          /\ n.email = request.form.email
          /\ response.member_id = Some(n.id)

-----------------------------------------------------------------------------
(* Properties of the score rows *)

\* C23: program_scores holds at most one row for any pair of a crew member
\* and a program.
C23_OneRowPerMemberAndProgram ==
    \A r \in BagToSet(program_scores) :
       /\ program_scores[r] = 1
       /\ \A t \in BagToSet(program_scores) :
             r.crew_member_id = t.crew_member_id /\ r.program_id = t.program_id => r = t

\* C24: a survey that passes the validation and has no field for some
\* catalog program succeeds, and the member has a row with score 10 for each
\* such program and a row with the submitted value for each other program.
C24_DefaultNeutralScore ==
    (/\ request.op = "submit_survey"
     /\ request.form.member_type = "new"
     /\ request.form.name # "" /\ request.form.email # ""
     /\ request.form.crew_id.kind = "digits" /\ request.form.crew_id.int # 0
     /\ request.form.skill_level.kind = "digits"
     /\ \E p \in programs : request.form.programs[p].kind = "absent"
     /\ \A p \in programs : request.form.programs[p].kind \in {"absent", "digits"})
    => /\ response.flash = "success"
       /\ \A p \in programs :
             ScoreRow(request.form.crew_id.int, response.member_id[1], p,
                      IF request.form.programs[p].kind = "absent" THEN 10
                      ELSE request.form.programs[p].int) \in BagToSet(program_scores)

\* C27: every program_scores row names a crew member that exists, and the
\* row's crew_id is that member's crew_id.
C27_ScoreRowsBelongToMembers ==
    \A r \in BagToSet(program_scores) :
       \E m \in crew_members : m.id = r.crew_member_id /\ m.crew_id = r.crew_id

\* The rows of a crew in a score table, or with exclude the rows of the
\* other crews.
CrewRows(scores, crew_id, exclude) ==
    LET rows == {r \in BagToSet(scores) : (r.crew_id = crew_id) # exclude}
    IN  [r \in rows |-> scores[r]]

\* C28: after POST /scores the rows of crew 1 are exactly the form entries
\* whose key reads score_<member>_<program> with integer ids and whose value
\* is a non-blank integer, one row each; whatever crew 1 had before is
\* gone, the other entries are skipped and the save succeeds, and the rows
\* of the other crews are as before.
C28_BulkSaveReplaces ==
    [][request'.op = "save_scores" =>
          LET stored == {entry \in request'.form :
                            entry.key = "score_m_p" /\ entry.value.kind = "digits"}
          IN  /\ response'.flash = "success"
              /\ CrewRows(program_scores', 1, FALSE) =
                     SetToBag({ScoreRow(1, entry.member, entry.program, entry.value.int) :
                                   entry \in stored})
              /\ CrewRows(program_scores', 1, TRUE) = CrewRows(program_scores, 1, TRUE)]_vars

\* C28 witness: a save whose form has a blank value, a value that is no
\* integer and keys of the wrong shape stored its one well-formed entry as
\* the only row of crew 1, next to a row of crew 2.
C28_Witness ==
    /\ request.op = "save_scores"
    /\ response.flash = "success"
    /\ \E entry \in request.form : entry.value.kind = "blank"
    /\ \E entry \in request.form : entry.value.kind = "text"
    /\ \E entry \in request.form : entry.key = "score_x_p"
    /\ \E r \in BagToSet(program_scores) : r.crew_id = 2
    /\ Cardinality({r \in BagToSet(program_scores) : r.crew_id = 1}) = 1

\* C30: a delete_member request for an id that no member has reports an
\* error and leaves crew_members and program_scores as they were, rows
\* carrying that id included.
C30_DeleteOfMissingMember ==
    [][(/\ request'.op = "delete_member"
        /\ request'.form.member_id.kind = "digits"
        /\ request'.form.member_id.int # 0
        /\ ~ \E m \in crew_members : m.id = request'.form.member_id.int)
       => /\ response'.flash = "error"
          /\ crew_members' = crew_members
          /\ program_scores' = program_scores]_vars

\* C30 witness: the delete named an id that no member has, was answered
\* with an error, and score rows with that id are still stored.
C30_Witness ==
    /\ request.op = "delete_member"
    /\ response.flash = "error"
    /\ request.form.member_id.kind = "digits"
    /\ ~ \E m \in crew_members : m.id = request.form.member_id.int
    /\ \E r \in BagToSet(program_scores) : r.crew_member_id = request.form.member_id.int

-----------------------------------------------------------------------------
(* Properties of the components under stored preferences *)

\* C25: under a preferences record written by save_preferences, every region
\* adds 0 or between 25 and 100 points to the area component of an
\* itinerary, and the area component the results page reports is at least
\* 0 and at most 400.
C25_AreaComponentBounds ==
    (/\ request.op = "results"
     /\ response.status = "ok"
     /\ RequestPrefs # <<>>)
    => /\ Truthy(RequestPrefs[1].area_important) =>
             \A itin \in itineraries : \A k \in 1..4 :
                AreaPoints(itin, AreaFields[k], area_scores(Some(RequestPrefs[1]))[k])
                   \in {0} \cup 25..100
       /\ \A i \in DOMAIN response.results :
             /\ NumLeq(Zero, response.results[i].components.area_score)
             /\ NumLeq(response.results[i].components.area_score, Int2Num(400))

\* C26: the difficulty component of every entry is 0 or 100, and it is 0
\* for an itinerary whose difficulty is unset or is none of C, R, S, SS,
\* under every setting of the four flags and under no preferences record.
C26_DifficultyOfUnknownTier ==
    Ranked =>
       \A i \in DOMAIN response.results :
          LET entry == response.results[i] IN
          /\ entry.components.difficulty_score \in {Zero, Int2Num(100)}
          /\ entry.itinerary.difficulty \notin {Some("C"), Some("R"), Some("S"), Some("SS")}
                => entry.components.difficulty_score = Zero

\* C26 witness: a ranking for a crew whose four flags are all true gives 0
\* to an itinerary without difficulty and to one of tier X, and 100 to one
\* of tier SS.
C26_Witness ==
    /\ Ranked
    /\ RequestPrefs # <<>>
    /\ \A flag \in {"difficulty_challenging", "difficulty_rugged", "difficulty_strenuous",
                     "difficulty_super_strenuous"} : RequestPrefs[1][flag] = Some(1)
    /\ \E i, j, k \in DOMAIN response.results :
          /\ response.results[i].itinerary.difficulty = None
          /\ response.results[i].components.difficulty_score = Zero
          /\ response.results[j].itinerary.difficulty = Some("X")
          /\ response.results[j].components.difficulty_score = Zero
          /\ response.results[k].itinerary.difficulty = Some("SS")
          /\ response.results[k].components.difficulty_score = Int2Num(100)

-----------------------------------------------------------------------------
(* Properties of the fields the scorer does not read *)

\* The tables without the fields the claim names.
ScoringInputs ==
    <<{[m EXCEPT !.name = "", !.email = "", !.age = None, !.skill_level = None] :
          m \in crew_members},
      [i \in DOMAIN crew_preferences |->
          [crew_preferences[i] EXCEPT !.programs_important = None, !.climb_baldy = None,
                                      !.climb_phillips = None, !.climb_tooth = None,
                                      !.climb_inspiration_point = None]],
      program_scores, programs, itineraries, itinerary_programs>>

\* What calculate_itinerary_scores fetches for crew 1: the score rows and the
\* itineraries in the orders the queries may give, and the availability rows.
Fetched == <<ScoreQuery(1), ItineraryQuery, itinerary_programs>>

\* C29: two states that differ only in the crew's programs_important flag,
\* its climb_* flags, or its members' names, emails, ages and skill levels
\* give the same output of calculate_itinerary_scores for every method:
\* the scorer fetches the same rows in both, and under the preferences
\* record of either state every itinerary gets the same components and
\* total, hence the same place and rank.  Checked for the two states of
\* every step that writes such a field only.
C29_UnreadFields ==
    [][Tables' # Tables /\ ScoringInputs' = ScoringInputs =>
          /\ Fetched' = Fetched
          /\ \A method \in Methods : \A scores \in ScoreQuery(1) : \A itin \in itineraries :
                /\ ScoredEntry(itin, get_program_scores(scores, method),
                               get_crew_preferences(1)')
                      = ScoredEntry(itin, get_program_scores(scores, method),
                                    get_crew_preferences(1))
                /\ AltitudeTypeError(itin, get_crew_preferences(1)')
                      = AltitudeTypeError(itin, get_crew_preferences(1))]_vars

\* C29 witness: a ranking of three itineraries, with a positive program
\* component, computed after the crew's programs_important and climb flags
\* were set and a member got another name, age and skill level.
C29_Witness ==
    /\ request.op = "results"
    /\ response.status = "ok"
    /\ Len(response.results) = 3
    /\ \E i \in DOMAIN response.results :
          NumLess(Zero, response.results[i].components.program_score)
    /\ RequestPrefs # <<>>
    /\ RequestPrefs[1].programs_important = Some(1)
    /\ RequestPrefs[1].climb_tooth = Some(1)
    /\ \E m \in crew_members :
          m.name = "bob" /\ m.age = Some(17) /\ m.skill_level = Some(5)

====
